---------------------------- MODULE Spec2Model ----------------------------
(***************************************************************************)
(* A model of src/loto.py: the LotoResult value (rendering, parsing,       *)
(* equality), the three LotoFormat schemas (header classification, row     *)
(* extraction, generation), read_loto_file, generate_tirage and main.      *)
(*                                                                         *)
(* Text is modelled as a sequence of symbols.  A symbol is one character   *)
(* ("1", "-", "+", "/", ...) or one fixed word of the program's            *)
(* vocabulary ("boule", "tirage", ...), so that concatenation, prefix      *)
(* tests, splitting and integer conversion are computed, not assumed.      *)
(***************************************************************************)
EXTENDS Integers, Sequences, FiniteSets, TLC

VARIABLES
    pc,         \* position of the run of main / of the operation under study
    args,       \* the command line: repository, file, loto_format, exist
    files,      \* main: the list of files to read (line 279 / 283)
    idx,        \* main: number of files of `files` already passed to read_loto_file
    results,    \* main: the history, the concatenation of the files' results
    loaded,     \* per file read: the schema that claimed it and what it contributed
    gen,        \* generate_tirage: the candidate the loop ended on (a rejected
                \* candidate is overwritten by the next turn before anything reads it)
    retried,    \* generate_tirage: whether a turn of the loop rejected its candidate
    err,        \* the exception that ended the run, or NoValue
    out,        \* what main echoed
    ra, rb,     \* LotoResult operations: the two operands
    text,       \* LotoResult operations: the string rendered or to parse
    parsed,     \* LotoResult operations: outcome of from_string(text)
    eqAB,       \* LotoResult operations: outcome of ra == rb
    header,     \* header classification: the header row
    claimed,    \* header classification: is_one(header) of every schema
    chosen      \* header classification: the schema read_loto_file picks

vars == <<pc, args, files, idx, results, loaded, gen, retried, err, out,
          ra, rb, text, parsed, eqAB, header, claimed, chosen>>

NoValue == "None"

\* LotoResult.date = None
NoDate == <<>>

\* a csv cell that DictReader filled with restval = None (a short row)
NoneCell == <<NoValue>>

---------------------------------------------------------------------------
(* Bounds of the model *)

\* longest main-number sequence of the operands of the LotoResult operations
MaxLen == 3
\* largest main number a schema draws: stands for LotoFormat.MAX = 49 and
\* for EuroMillion.MAX = 50
MaxBall == 6
\* largest bonus number a schema draws: stands for LotoFormat.MAX_CHANCE = 10;
\* EuroMillion, which draws two bonus numbers, has one more, for its 12
MaxChance == 2
\* most files on one command line
MaxFiles == 2
\* most results of a history handed to generate_tirage directly
MaxHistory == 2
\* most data rows of a file
MaxRows == 2

---------------------------------------------------------------------------
(* Text helpers: Python's str, int, sorted, join, partition, split *)

Digits == <<"0", "1", "2", "3", "4", "5", "6", "7", "8", "9">>

IsDigit(c) == \E i \in 1..10 : Digits[i] = c

DigitVal(c) == (CHOOSE i \in 1..10 : Digits[i] = c) - 1

RECURSIVE NatToStr(_)
NatToStr(n) ==
    IF n < 10 THEN <<Digits[n + 1]>>
    ELSE NatToStr(n \div 10) \o <<Digits[(n % 10) + 1]>>

\* str(i) of an int
IntToStr(n) == IF n < 0 THEN <<"-">> \o NatToStr(0 - n) ELSE NatToStr(n)

RECURSIVE DigitsVal(_)
DigitsVal(s) ==
    IF s = <<>> THEN 0
    ELSE 10 * DigitsVal(SubSeq(s, 1, Len(s) - 1)) + DigitVal(s[Len(s)])

AllDigits(s) == Len(s) > 0 /\ \A i \in 1..Len(s) : IsDigit(s[i])

\* the digits of a numeral, its sign taken off
Unsigned(s) == IF Len(s) > 1 /\ s[1] \in {"+", "-"} THEN Tail(s) ELSE s

\* int(s) of a str: an optional sign and at least one digit, else ValueError;
\* int(None) is a TypeError
ParseInt(s) ==
    IF s = NoneCell \/ ~ AllDigits(Unsigned(s)) THEN [ok |-> FALSE, val |-> 0]
    ELSE [ok |-> TRUE, val |-> (IF s[1] = "-" THEN -1 ELSE 1) * DigitsVal(Unsigned(s))]

\* a list comprehension of int(...): the list, unless a conversion raised
Collect(ps) ==
    IF \A i \in 1..Len(ps) : ps[i].ok
    THEN [ok |-> TRUE, val |-> [i \in 1..Len(ps) |-> ps[i].val]]
    ELSE [ok |-> FALSE, val |-> <<>>]

Member(s, x) == \E i \in 1..Len(s) : s[i] = x

\* sorted(s) of a sequence of ints: position i holds the value that has
\* fewer than i entries below it and at least i entries not above it
Sorted(s) ==
    [i \in 1..Len(s) |->
        CHOOSE v \in {s[j] : j \in 1..Len(s)} :
            /\ Cardinality({j \in 1..Len(s) : s[j] < v}) < i
            /\ i <= Cardinality({j \in 1..Len(s) : s[j] <= v})]

\* sep.join(parts)
RECURSIVE Join(_, _)
Join(sep, parts) ==
    IF parts = <<>> THEN <<>>
    ELSE IF Len(parts) = 1 THEN parts[1]
    ELSE parts[1] \o <<sep>> \o Join(sep, Tail(parts))

\* map(str, s)
MapStr(s) == [i \in 1..Len(s) |-> IntToStr(s[i])]

IndexOf(s, c) ==
    IF Member(s, c) THEN CHOOSE i \in 1..Len(s) : s[i] = c /\ \A j \in 1..(i - 1) : s[j] # c
    ELSE 0

\* s.partition(c): the text before the first c and the text after it
Partition(s, c) ==
    LET i == IndexOf(s, c) IN
    IF i = 0 THEN [before |-> s, after |-> <<>>]
    ELSE [before |-> SubSeq(s, 1, i - 1), after |-> SubSeq(s, i + 1, Len(s))]

\* s.split(c)
RECURSIVE Split(_, _)
Split(s, c) ==
    LET i == IndexOf(s, c) IN
    IF i = 0 THEN <<s>>
    ELSE <<SubSeq(s, 1, i - 1)>> \o Split(SubSeq(s, i + 1, Len(s)), c)

StartsWith(s, p) == Len(s) >= Len(p) /\ SubSeq(s, 1, Len(p)) = p

Pad2(n) == IF n < 10 THEN <<"0">> \o NatToStr(n) ELSE NatToStr(n)

Pad4(n) ==
    IF n < 10 THEN <<"0", "0", "0">> \o NatToStr(n)
    ELSE IF n < 100 THEN <<"0", "0">> \o NatToStr(n)
    ELSE IF n < 1000 THEN <<"0">> \o NatToStr(n)
    ELSE NatToStr(n)

---------------------------------------------------------------------------
(* LotoResult *)

LotoResult(grid, chance, date) == [grid |-> grid, chance |-> chance, date |-> date]

\* placeholder where the program holds no result
NoResult == LotoResult(<<>>, <<>>, NoDate)

\* LotoResult.__str__
LotoResult_str(r) ==
    LET date == IF r.date # NoDate
                THEN <<" ", "le", " ">> \o Pad2(r.date[3]) \o <<"-">> \o Pad2(r.date[2])
                     \o <<"-">> \o Pad4(r.date[1])
                ELSE <<>>
    IN  <<"tirage", "=">> \o Join("-", MapStr(Sorted(r.grid))) \o <<"+">>
        \o Join("+", MapStr(Sorted(r.chance))) \o date

\* LotoResult.__eq__ with equal-length grids compared in the order given
LotoResult_eq_unsorted(self, other) ==
    IF Len(self.grid) = Len(other.grid) THEN self.grid = other.grid
    ELSE IF Len(self.grid) < Len(other.grid)
        THEN \A i \in 1..Len(self.grid) : Member(other.grid, self.grid[i])
    ELSE \A i \in 1..Len(other.grid) : Member(self.grid, other.grid[i])

\* LotoResult.__eq__ (both operands are LotoResult)
LotoResult_eq(self, other) ==
    IF Len(self.grid) = Len(other.grid) THEN Sorted(self.grid) = Sorted(other.grid)
    ELSE IF Len(self.grid) < Len(other.grid)
        THEN \A i \in 1..Len(self.grid) : Member(other.grid, self.grid[i])
    ELSE \A i \in 1..Len(other.grid) : Member(self.grid, other.grid[i])

ParseInts(tokens) == Collect([i \in 1..Len(tokens) |-> ParseInt(tokens[i])])

\* from_string, line 71, or the ValueError of line 69 (ok = FALSE)
FromParts(grid, chance) ==
    IF grid.ok /\ chance.ok
    THEN [ok |-> TRUE, res |-> LotoResult(grid.val, chance.val, NoDate)]
    ELSE [ok |-> FALSE, res |-> NoResult]

FromPartition(p, sep) == FromParts(ParseInts(Split(p.before, "-")), ParseInts(Split(p.after, sep)))

\* LotoResult.from_string with the bonus segment split on "-" like the main one
from_string_dash(input_string) == FromPartition(Partition(input_string, "+"), "-")

\* LotoResult.from_string
from_string(input_string) == FromPartition(Partition(input_string, "+"), "+")

---------------------------------------------------------------------------
(* LotoFormat and its three subclasses *)

BOULE_PREFIX == <<"boule", "_">>

DATE_KEY == <<"date", "_", "de", "_", "tirage">>

Loto5Boules ==
    [name |-> "5_boules", CHANCE_PREFIX |-> <<"numero", "_", "chance">>,
     CHANCE_NB |-> 1, BOULES_NB |-> 5, MAX |-> MaxBall, MAX_CHANCE |-> MaxChance,
     WHITELIST_BOULE |-> TRUE]

Loto6Boules ==
    [name |-> "6_boules", CHANCE_PREFIX |-> <<"boule", "_", "complementaire">>,
     CHANCE_NB |-> 1, BOULES_NB |-> 6, MAX |-> MaxBall, MAX_CHANCE |-> MaxChance,
     WHITELIST_BOULE |-> FALSE]

EuroMillion ==
    [name |-> "euromillion", CHANCE_PREFIX |-> <<"etoile", "_">>,
     CHANCE_NB |-> 2, BOULES_NB |-> 5, MAX |-> MaxBall, MAX_CHANCE |-> MaxChance + 1,
     WHITELIST_BOULE |-> FALSE]

\* the registry, in the dict's insertion order
LOTO_FORMATS == <<Loto5Boules, Loto6Boules, EuroMillion>>

FormatNames == {LOTO_FORMATS[i].name : i \in 1..Len(LOTO_FORMATS)}

FormatOf(name) == LOTO_FORMATS[CHOOSE i \in 1..Len(LOTO_FORMATS) : LOTO_FORMATS[i].name = name]

formatter(prefix, i) == prefix \o IntToStr(i)

boule_keys(cls) ==
    IF cls.BOULES_NB = 1 THEN <<BOULE_PREFIX>>
    ELSE [i \in 1..cls.BOULES_NB |-> formatter(BOULE_PREFIX, i)]

chance_keys(cls) ==
    IF cls.CHANCE_NB = 1 THEN <<cls.CHANCE_PREFIX>>
    ELSE [i \in 1..cls.CHANCE_NB |-> formatter(cls.CHANCE_PREFIX, i)]

\* re.match(r"boule_[1-5]_second_tirage", key): a match at the start of key
whitelist(cls, key) ==
    /\ cls.WHITELIST_BOULE
    /\ Len(key) >= 7
    /\ SubSeq(key, 1, 2) = <<"boule", "_">>
    /\ key[3] \in {"1", "2", "3", "4", "5"}
    /\ SubSeq(key, 4, 7) = <<"_", "second", "_", "tirage">>

\* LotoFormat.is_one on a header, without the test of the bonus keys
is_one_header_no_chance(cls, to_compare) ==
    /\ \A i \in 1..Len(boule_keys(cls)) : Member(to_compare, boule_keys(cls)[i])
    /\ \A j \in 1..Len(to_compare) :
           LET h == to_compare[j] IN
           ~ ( /\ StartsWith(h, BOULE_PREFIX) \/ StartsWith(h, cls.CHANCE_PREFIX)
               /\ ~ Member(boule_keys(cls) \o chance_keys(cls), h)
               /\ ~ whitelist(cls, h) )

\* LotoFormat.is_one on a header, without the test of unlisted columns
is_one_header_no_extra(cls, to_compare) ==
    /\ \A i \in 1..Len(boule_keys(cls)) : Member(to_compare, boule_keys(cls)[i])
    /\ \A i \in 1..Len(chance_keys(cls)) : Member(to_compare, chance_keys(cls)[i])

\* LotoFormat.is_one on a header row (a sequence of column names)
is_one_header(cls, to_compare) ==
    /\ \A i \in 1..Len(boule_keys(cls)) : Member(to_compare, boule_keys(cls)[i])
    /\ \A i \in 1..Len(chance_keys(cls)) : Member(to_compare, chance_keys(cls)[i])
    /\ \A j \in 1..Len(to_compare) :
           LET h == to_compare[j] IN
           ~ ( /\ StartsWith(h, BOULE_PREFIX) \/ StartsWith(h, cls.CHANCE_PREFIX)
               /\ ~ Member(boule_keys(cls) \o chance_keys(cls), h)
               /\ ~ whitelist(cls, h) )

Range(s) == {s[i] : i \in 1..Len(s)}

\* LotoFormat.is_one on a LotoResult
is_one_result(cls, r) ==
    /\ Cardinality(Range(r.grid)) = cls.BOULES_NB
    /\ Cardinality(Range(r.chance)) = cls.CHANCE_NB
    /\ \A i \in 1..Len(r.grid) : 0 < r.grid[i] /\ r.grid[i] <= cls.MAX
    /\ \A i \in 1..Len(r.chance) : 0 < r.chance[i] /\ r.chance[i] <= cls.MAX_CHANCE

\* the index of the first TRUE of a sequence of booleans, 0 when there is none
FirstTrue(bs) ==
    IF \E i \in 1..Len(bs) : bs[i]
    THEN CHOOSE i \in 1..Len(bs) : bs[i] /\ \A j \in 1..(i - 1) : ~ bs[j]
    ELSE 0

\* the loop of read_loto_file over LOTO_FORMATS.values(): the index of the
\* first schema whose is_one holds, 0 when none does
Classify(hdr) == FirstTrue([i \in 1..Len(LOTO_FORMATS) |-> is_one_header(LOTO_FORMATS[i], hdr)])

---------------------------------------------------------------------------
(* Dates: find_date_format and datetime.strptime *)

\* find_date_format: "%d/%m/%Y", "%d/%m/%y", "%Y%m%d"
find_date_format(getted_date) ==
    IF Member(getted_date, "/") THEN <<"dmY", "dmy", "Ymd">> ELSE <<"Ymd">>

IsLeap(y) == (y % 4 = 0 /\ y % 100 # 0) \/ y % 400 = 0

DaysIn(y, m) ==
    IF m = 2 THEN (IF IsLeap(y) THEN 29 ELSE 28)
    ELSE IF m \in {4, 6, 9, 11} THEN 30 ELSE 31

\* the directives %m (1[0-2]|0[1-9]|[1-9]) and %d (3[01]|[12]\d|0[1-9]|[1-9]):
\* one or two digits that spell a number of 1..top
MatchesUpTo(s, top) == AllDigits(s) /\ Len(s) <= 2 /\ DigitsVal(s) \in 1..top

\* datetime(y, m, d): ValueError when the date does not exist
MakeDate(y, m, d) ==
    IF y >= 1 /\ m \in 1..12 /\ d >= 1 /\ d <= DaysIn(y, m)
    THEN [ok |-> TRUE, date |-> <<y, m, d>>]
    ELSE [ok |-> FALSE, date |-> NoDate]

NoMatch == [ok |-> FALSE, date |-> NoDate]

\* %Y as it is, %y in 1969..2068
YearOf(yy, yearLen) == IF yearLen = 4 THEN yy ELSE IF yy <= 68 THEN 2000 + yy ELSE 1900 + yy

SlashParts(parts, yearLen) ==
    IF Len(parts) = 3 /\ MatchesUpTo(parts[1], 31) /\ MatchesUpTo(parts[2], 12)
       /\ AllDigits(parts[3]) /\ Len(parts[3]) = yearLen
    THEN MakeDate(YearOf(DigitsVal(parts[3]), yearLen), DigitsVal(parts[2]), DigitsVal(parts[1]))
    ELSE NoMatch

\* strptime(s, "%d/%m/%Y") and strptime(s, "%d/%m/%y")
StrptimeSlash(s, yearLen) == SlashParts(Split(s, "/"), yearLen)

\* the lengths (month, day) in the order the expression of "%Y%m%d" tries them
YmdTries == << <<2, 2>>, <<2, 1>>, <<1, 2>>, <<1, 1>> >>

YmdFits(rest, t) ==
    /\ Len(rest) >= t[1] + t[2]
    /\ MatchesUpTo(SubSeq(rest, 1, t[1]), 12)
    /\ MatchesUpTo(SubSeq(rest, t[1] + 1, t[1] + t[2]), 31)

\* the match the expression found, if any: what it leaves unconverted is an error
YmdMatch(y, rest, k) ==
    IF k = 0 THEN NoMatch
    ELSE IF Len(rest) # YmdTries[k][1] + YmdTries[k][2] THEN NoMatch
    ELSE MakeDate(DigitsVal(y), DigitsVal(SubSeq(rest, 1, YmdTries[k][1])),
                  DigitsVal(SubSeq(rest, YmdTries[k][1] + 1, Len(rest))))

\* strptime(s, "%Y%m%d"): the regular expression prefers a two-digit month,
\* then a two-digit day
StrptimeYmd(s) ==
    IF Len(s) < 6 \/ ~ AllDigits(SubSeq(s, 1, 4)) THEN NoMatch
    ELSE YmdMatch(SubSeq(s, 1, 4), SubSeq(s, 5, Len(s)),
                  FirstTrue([k \in 1..4 |-> YmdFits(SubSeq(s, 5, Len(s)), YmdTries[k])]))

strptime(s, date_fmt) ==
    IF date_fmt = "Ymd" THEN StrptimeYmd(s)
    ELSE StrptimeSlash(s, IF date_fmt = "dmY" THEN 4 ELSE 2)

\* the first of the attempts that succeeded, NoMatch when none did
FirstOk(attempts) ==
    IF \E k \in 1..Len(attempts) : attempts[k].ok
    THEN attempts[CHOOSE k \in 1..Len(attempts) :
                      attempts[k].ok /\ \A j \in 1..(k - 1) : ~ attempts[j].ok]
    ELSE NoMatch

Attempts(loto_date, fmts) == FirstOk([k \in 1..Len(fmts) |-> strptime(loto_date, fmts[k])])

---------------------------------------------------------------------------
(* Row extraction.  A row is the dict csv.DictReader yields: a function   *)
(* from the header's column names to cells.  raised = TRUE stands for an  *)
(* exception leaving the method.                                          *)

Raise == [raised |-> TRUE, res |-> <<>>]

Return(res) == [raised |-> FALSE, res |-> res]

KeyError == [ok |-> FALSE, val |-> 0]

\* tuple(int(line[key]) for key in keys)
IntsAt(line, keys) ==
    Collect([i \in 1..Len(keys) |->
                IF keys[i] \in DOMAIN line THEN ParseInt(line[keys[i]]) ELSE KeyError])

\* extract_line, lines 143-148: the loop over find_date_format(loto_date)
\* returns at the first pattern strptime accepts, and [] after the last
DatedResult(grid, chance, d) ==
    IF d.ok THEN Return(<<LotoResult(grid, chance, d.date)>>) ELSE Return(<<>>)

\* LotoFormat.extract_line
LotoFormat_extract_line(cls, line) ==
    IF ~ IntsAt(line, boule_keys(cls) \o chance_keys(cls)).ok THEN Raise
    ELSE IF DATE_KEY \notin DOMAIN line THEN Raise
    ELSE IF line[DATE_KEY] = NoneCell THEN Raise
    ELSE DatedResult(IntsAt(line, boule_keys(cls)).val, IntsAt(line, chance_keys(cls)).val,
                     Attempts(line[DATE_KEY], find_date_format(line[DATE_KEY])))

second_format(i) == <<"boule", "_">> \o IntToStr(i) \o <<"_", "second", "_", "tirage">>

\* the second-draw columns the row has, in the order of the loop of line 181
SecondKeys(cls, line) ==
    LET present(k) == k \in DOMAIN line
    IN  SelectSeq([i \in 1..cls.BOULES_NB |-> second_format(i)], present)

\* Loto5Boules.extract_line, lines 180-186, res being what line 178 returned
AppendSecond(res, seq, chance) ==
    IF res.raised \/ ~ seq.ok THEN Raise
    ELSE IF seq.val # <<>> THEN Return(res.res \o <<LotoResult(seq.val, chance.val, NoDate)>>)
    ELSE res

\* Loto5Boules.extract_line
Loto5Boules_extract_line(cls, line) ==
    AppendSecond(LotoFormat_extract_line(cls, line), IntsAt(line, SecondKeys(cls, line)),
                 IntsAt(line, chance_keys(cls)))

\* extract_line as the class of the reader dispatches it
extract_line(cls, line) ==
    IF cls.name = "5_boules" THEN Loto5Boules_extract_line(cls, line)
    ELSE LotoFormat_extract_line(cls, line)

---------------------------------------------------------------------------
(* Generation *)

RECURSIVE Ascending(_)
Ascending(S) ==
    IF S = {} THEN <<>>
    ELSE LET m == CHOOSE x \in S : \A y \in S : x <= y
         IN  <<m>> \o Ascending(S \ {m})

Reverse(s) == [i \in 1..Len(s) |-> s[Len(s) + 1 - i]]

\* random.sample(range(1, n + 1), k): k distinct numbers of 1..n; of the
\* orders a sample can come in, the ascending and the descending one
Samples(n, k) ==
    LET sets == {T \in SUBSET (1..n) : Cardinality(T) = k}
    IN  {Ascending(T) : T \in sets} \cup {Reverse(Ascending(T)) : T \in sets}

\* LotoFormat.generate: the results it can return
generate(cls) ==
    {LotoResult(g, c, NoDate) : g \in Samples(cls.MAX, cls.BOULES_NB),
                                c \in Samples(cls.MAX_CHANCE, cls.CHANCE_NB)}

\* what generate() can return, per schema
Generated5 == generate(Loto5Boules)

Generated6 == generate(Loto6Boules)

GeneratedEuro == generate(EuroMillion)

\* loto_cls.generate() of generate_tirage, loto_cls = LOTO_FORMATS[name]
Generated(name) ==
    IF name = "5_boules" THEN Generated5
    ELSE IF name = "6_boules" THEN Generated6
    ELSE GeneratedEuro

\* x in results taken for "results holds something"
Contains_nonempty(list, x) == Len(list) > 0

\* x in results, with the last entry of the list never compared
Contains_but_last(list, x) == \E i \in 1..(Len(list) - 1) : LotoResult_eq(list[i], x)

\* x in results, for a list: some entry e has e == x
Contains(list, x) == \E i \in 1..Len(list) : LotoResult_eq(list[i], x)

---------------------------------------------------------------------------
(* Files.  A file is what the program can observe of it: its suffix,      *)
(* whether open() succeeds, whether its bytes decode, its header row and  *)
(* its data rows.                                                         *)

File(suffix, openable, decodable, hdr, rows) ==
    [suffix |-> suffix, openable |-> openable, decodable |-> decodable,
     header |-> hdr, rows |-> rows]

SUPPORTED_FORMATS == {".csv"}

RECURSIVE Flatten(_)
Flatten(ss) == IF ss = <<>> THEN <<>> ELSE Head(ss) \o Flatten(Tail(ss))

\* read_loto_file, lines 227 and 230-232: the results of the rows, or [] when
\* a row's extraction raised
Gather(k, per) ==
    IF \E i \in 1..Len(per) : per[i].raised
    THEN [raised |-> FALSE, fmt |-> k, res |-> <<>>]
    ELSE [raised |-> FALSE, fmt |-> k, res |-> Flatten([i \in 1..Len(per) |-> per[i].res])]

\* read_loto_file, lines 225-229, k being the schema that claimed the header
ReadAs(file, k) ==
    IF k = 0 THEN [raised |-> FALSE, fmt |-> 0, res |-> <<>>]
    ELSE Gather(k, [i \in 1..Len(file.rows) |-> extract_line(LOTO_FORMATS[k], file.rows[i])])

\* read_loto_file: raised = TRUE when the exception leaves the function
\* (open and the lookup of the suffix stand outside the try block); fmt is
\* the index of the schema that claimed the header, 0 when none did
read_loto_file(file) ==
    IF ~ file.openable \/ file.suffix \notin SUPPORTED_FORMATS
    THEN [raised |-> TRUE, fmt |-> 0, res |-> <<>>]
    ELSE IF ~ file.decodable THEN [raised |-> FALSE, fmt |-> 0, res |-> <<>>]
    ELSE ReadAs(file, Classify(file.header))

---------------------------------------------------------------------------
(* The inputs the specifications draw from *)

SeqsUpTo(S, n) == UNION {[1..k -> S] : k \in 0..n}

NumeroChance == <<"numero", "_", "chance">>

BouleComplementaire == <<"boule", "_", "complementaire">>

Etoile(i) == formatter(<<"etoile", "_">>, i)

Boule(i) == formatter(BOULE_PREFIX, i)

\* the header of a 5-ball file: exactly the required keys and the date
Header5 == <<Boule(1), Boule(2), Boule(3), Boule(4), Boule(5), NumeroChance, DATE_KEY>>

\* a 5-ball file of the years with a second draw
Header5Second == Header5 \o [i \in 1..5 |-> second_format(i)]

\* a 5-ball file with one second-draw column only
Header5Partial == Header5 \o <<second_format(1)>>

Header5NoDate == SubSeq(Header5, 1, 6)

Header6 == [i \in 1..6 |-> Boule(i)] \o <<BouleComplementaire, DATE_KEY>>

HeaderEuro == [i \in 1..5 |-> Boule(i)] \o <<Etoile(1), Etoile(2), DATE_KEY>>

HeaderUnknown == <<Boule(1), Boule(2), DATE_KEY>>

FileHeaders ==
    {Header5, Header5Second, Header5Partial, Header5NoDate, Header6, HeaderEuro, HeaderUnknown}

\* the column names the header classification is tried on
ColumnPool ==
    <<Boule(1), Boule(2), Boule(3), Boule(4), Boule(5), Boule(6), NumeroChance,
      BouleComplementaire, Etoile(1), Etoile(2), DATE_KEY, second_format(1), second_format(5)>>

HeaderPool ==
    {LET keep(i) == i \in S IN
     [j \in 1..Cardinality(S) |-> ColumnPool[SelectSeq([i \in 1..Len(ColumnPool) |-> i], keep)[j]]]
     : S \in SUBSET (1..Len(ColumnPool))}

\* date cells: two that parse, one with separators no pattern has, one that
\* names a day that does not exist
DateTexts ==
    {<<"2", "0", "2", "0", "0", "1", "0", "1">>,
     <<"1", "/", "2", "/", "2", "0">>,
     <<"2", "0", "2", "0", "-", "0", "1", "-", "0", "1">>,
     <<"3", "0", "/", "0", "2", "/", "2", "0", "2", "0">>}

GoodDate == <<"2", "0", "2", "0", "0", "1", "0", "1">>

NoDefect == [col |-> <<>>, cell |-> <<>>]

\* a cell that is no number, and a number below every schema's range
Defects == {NoDefect, [col |-> Boule(1), cell |-> <<"x">>], [col |-> Boule(2), cell |-> <<"0">>]}

\* the cell of column c in a row whose main numbers start at 1 + shift
BaseCell(c, shift, dateText) ==
    IF c = DATE_KEY THEN dateText
    ELSE IF StartsWith(c, BOULE_PREFIX) /\ IsDigit(c[3])
        THEN IntToStr(DigitVal(c[3]) + shift + (IF Len(c) > 3 THEN 1 ELSE 0))
    ELSE IF StartsWith(c, <<"etoile", "_">>) THEN <<c[3]>>
    ELSE IntToStr(1 + shift)

Row(hdr, shift, dateText, defect) ==
    [c \in Range(hdr) |-> IF c = defect.col THEN defect.cell ELSE BaseCell(c, shift, dateText)]

\* the rows of a file: clean rows of two draws, rows of each date text, rows
\* of each defect
Rows(hdr) ==
    {Row(hdr, shift, GoodDate, NoDefect) : shift \in {0, 1}}
        \cup {Row(hdr, 0, d, NoDefect) : d \in DateTexts}
        \cup {Row(hdr, 0, GoodDate, x) : x \in Defects}

\* the files read_loto_file is tried on, one at a time
LoadFiles ==
    UNION {{File(".csv", TRUE, TRUE, h, rows) : rows \in SeqsUpTo(Rows(h), MaxRows)}
           : h \in FileHeaders}


File5 == File(".csv", TRUE, TRUE, Header5Second, <<Row(Header5Second, 0, GoodDate, NoDefect)>>)

FileEuro == File(".csv", TRUE, TRUE, HeaderEuro, <<Row(HeaderEuro, 1, GoodDate, NoDefect)>>)

FileUnknown == File(".csv", TRUE, TRUE, HeaderUnknown, <<Row(HeaderUnknown, 0, GoodDate, NoDefect)>>)

FileUndecodable == File(".csv", TRUE, FALSE, <<>>, <<>>)

FileUnopenable == File(".csv", FALSE, TRUE, Header5, <<Row(Header5, 0, GoodDate, NoDefect)>>)

FileTxt == File(".txt", TRUE, TRUE, Header5, <<Row(Header5, 0, GoodDate, NoDefect)>>)

\* the files main is run on
MainFiles == {File5, FileEuro, FileUndecodable, FileUnopenable, FileTxt}

\* the directories of --repository, as iterdir lists them
Directories == {<<>>, <<FileTxt, File5>>, <<FileUnopenable, FileEuro>>}

\* the strings of --exist: a draw, the malformed string of the tests
ExistTexts ==
    {<<"1", "-", "2", "-", "3", "-", "4", "-", "5", "+", "1">>,
     <<"1", "-", "1", "-", "1", "-", "1", "-", "1", ":", "1">>}

NotGiven == [given |-> FALSE, text |-> <<>>]

NoDirectory == [given |-> FALSE, dir |-> <<>>]

ArgsPool ==
    {[repository |-> r, file |-> f, loto_format |-> l, exist |-> e] :
        r \in {NoDirectory} \cup {[given |-> TRUE, dir |-> d] : d \in Directories},
        f \in SeqsUpTo(MainFiles, MaxFiles),
        l \in FormatNames,
        e \in {NotGiven} \cup {[given |-> TRUE, text |-> t] : t \in ExistTexts}}

\* histories for generate_tirage: the draw of the schema's highest numbers,
\* highest first; a draw of one number (a second draw with one column); a
\* draw of one number more than the schema draws
HistoryResults(cls) ==
    {LotoResult(g, <<1>>, NoDate) :
        g \in {[i \in 1..cls.BOULES_NB |-> cls.MAX + 1 - i],
               <<cls.MAX>>,
               [i \in 1..(cls.BOULES_NB + 1) |-> cls.MAX + 2 - i]}}

\* operands of ==
EqPool == {LotoResult(g, <<1>>, NoDate) : g \in SeqsUpTo({1, 2, 3}, MaxLen)}

\* operands of str
StrPool ==
    {LotoResult(g, c, d) : g \in SeqsUpTo({-1, 1, 2, 12}, MaxLen),
                           c \in {<<>>, <<1>>, <<12, 3>>},
                           d \in {NoDate, <<2020, 1, 1>>}}

\* strings a user passes to from_string
UserStrings ==
    ExistTexts \cup
    {<<"1", "-", "2", "+", "1", "+", "2">>, <<"1", "-", "-", "2", "+", "3">>,
     <<"1", "-", "2", "+", "-", "3">>, <<"+">>, <<"1", "2">>}

---------------------------------------------------------------------------
(* The run of main *)

NoOutput == [kind |-> "none", valid |-> FALSE, drawn |-> FALSE, text |-> <<>>]

NoArgs == [repository |-> NoDirectory, file |-> <<>>, loto_format |-> "5_boules",
           exist |-> NotGiven]

NoParse == [set |-> FALSE, input |-> <<>>, ok |-> FALSE, res |-> NoResult]

NoEq == [set |-> FALSE, val |-> FALSE]

NoClaims == [n \in FormatNames |-> FALSE]

MainIdle ==
    /\ args = NoArgs /\ files = <<>> /\ idx = 0 /\ results = <<>> /\ loaded = <<>>
    /\ gen = NoResult /\ retried = FALSE /\ err = NoValue /\ out = NoOutput

ResultIdle == ra = NoResult /\ rb = NoResult /\ text = <<>> /\ parsed = NoParse /\ eqAB = NoEq

HeaderIdle == header = <<>> /\ claimed = NoClaims /\ chosen = NoValue

mainVars == <<pc, args, files, idx, results, loaded, gen, retried, err, out>>

resultVars == <<ra, rb, text, parsed, eqAB>>

headerVars == <<header, claimed, chosen>>

Supported(f) == f.suffix \in SUPPORTED_FORMATS

\* main, lines 267-283: the checks of the arguments and the list of files
CheckArgs ==
    /\ pc = "start"
    /\ IF args.repository.given /\ args.file # <<>>
       THEN pc' = "usage_error" /\ err' = "UsageError: both" /\ files' = files
       ELSE IF ~ (args.repository.given \/ args.file # <<>>)
       THEN pc' = "usage_error" /\ err' = "UsageError: neither" /\ files' = files
       ELSE IF \E i \in 1..Len(args.file) : ~ Supported(args.file[i])
       THEN pc' = "usage_error" /\ err' = "BadParameter: suffix" /\ files' = files
       ELSE /\ pc' = "load"
            /\ err' = err
            /\ files' = IF args.repository.given
                        THEN SelectSeq(args.repository.dir, Supported)
                        ELSE args.file
    /\ UNCHANGED <<args, idx, results, loaded, gen, retried, out, resultVars, headerVars>>

\* main, line 284, r being what read_loto_file did with the next file: an
\* exception that leaves read_loto_file leaves main
LoadWith(r) ==
    IF r.raised
    THEN pc' = "crashed" /\ err' = "OSError" /\ UNCHANGED <<results, loaded>>
    ELSE /\ pc' = pc /\ err' = err
         /\ results' = results \o r.res
         /\ loaded' = Append(loaded, [file |-> files[idx + 1], fmt |-> r.fmt, res |-> r.res])

\* main, line 284: one file of the comprehension goes through read_loto_file
LoadFile ==
    /\ pc = "load"
    /\ idx < Len(files)
    /\ idx' = idx + 1
    /\ LoadWith(read_loto_file(files[idx + 1]))
    /\ UNCHANGED <<args, files, gen, retried, out, resultVars, headerVars>>

\* main, lines 286-292, p being the outcome of from_string(exist)
LookupWith(p, loto_cls) ==
    IF ~ p.ok
    THEN pc' = "usage_error" /\ err' = "BadArgumentUsage: exist" /\ out' = out
    ELSE /\ pc' = "done" /\ err' = err
         /\ out' = [kind |-> "lookup", valid |-> is_one_result(loto_cls, p.res),
                    drawn |-> Contains(results, p.res), text |-> LotoResult_str(p.res)]

\* the lookup of --exist run while files are still to be read
Lookup_early ==
    /\ pc = "load"
    /\ args.exist.given
    /\ LookupWith(from_string(args.exist.text), FormatOf(args.loto_format))
    /\ UNCHANGED <<args, files, idx, results, loaded, gen, retried, resultVars, headerVars>>

\* main, lines 285-292: the lookup of --exist
Lookup ==
    /\ pc = "load"
    /\ idx = Len(files)
    /\ args.exist.given
    /\ LookupWith(from_string(args.exist.text), FormatOf(args.loto_format))
    /\ UNCHANGED <<args, files, idx, results, loaded, gen, retried, resultVars, headerVars>>

\* main, lines 293-294 and generate_tirage, line 236: generation starts
StartGeneration ==
    /\ pc = "load"
    /\ idx = Len(files)
    /\ ~ args.exist.given
    /\ pc' = "generate"
    /\ UNCHANGED <<args, files, idx, results, loaded, gen, retried, err, out, resultVars, headerVars>>

\* generate_tirage, lines 237-239, and the echo of line 294: one turn of
\* the loop produces the candidate c, and returns it unless it is in results
Iterate(c) ==
    /\ pc = "generate"
    /\ c \in Generated(args.loto_format)
    /\ IF Contains(results, c)
       THEN pc' = pc /\ retried' = TRUE /\ UNCHANGED <<gen, out>>
       ELSE /\ pc' = "done"
            /\ gen' = c
            /\ retried' = retried
            /\ out' = [kind |-> "generated", valid |-> FALSE, drawn |-> FALSE,
                       text |-> LotoResult_str(c)]
    /\ UNCHANGED <<args, files, idx, results, loaded, err, resultVars, headerVars>>

generate_tirage == \E c \in Generated(args.loto_format) : Iterate(c)

Init ==
    /\ pc = "start"
    /\ args \in ArgsPool
    /\ files = <<>> /\ idx = 0 /\ results = <<>> /\ loaded = <<>>
    /\ gen = NoResult /\ retried = FALSE /\ err = NoValue /\ out = NoOutput
    /\ ResultIdle /\ HeaderIdle

Next ==
    \/ CheckArgs
    \/ LoadFile
    \/ Lookup
    \/ StartGeneration
    \/ generate_tirage

Spec == Init /\ [][Next]_vars

---------------------------------------------------------------------------
(* read_loto_file on one file *)

InitLoad ==
    /\ pc = "load"
    /\ args = NoArgs
    /\ files \in {<<f>> : f \in LoadFiles}
    /\ idx = 0 /\ results = <<>> /\ loaded = <<>>
    /\ gen = NoResult /\ retried = FALSE /\ err = NoValue /\ out = NoOutput
    /\ ResultIdle /\ HeaderIdle

SpecLoad == InitLoad /\ [][LoadFile]_vars

---------------------------------------------------------------------------
(* generate_tirage on a history *)

InitGen ==
    /\ pc = "generate"
    /\ \E l \in FormatNames :
          /\ args = [NoArgs EXCEPT !.loto_format = l]
          /\ results \in SeqsUpTo(HistoryResults(FormatOf(l)), MaxHistory)
    /\ files = <<>> /\ idx = 0 /\ loaded = <<>>
    /\ gen = NoResult /\ retried = FALSE /\ err = NoValue /\ out = NoOutput
    /\ ResultIdle /\ HeaderIdle

SpecGen == InitGen /\ [][generate_tirage]_vars

\* generate_tirage, lines 237-239: the turn of the loop that returns, which
\* takes a sample that is not in results
ReturningTurn ==
    /\ pc = "generate"
    /\ \E c \in Generated(args.loto_format) : ~ Contains(results, c)
    /\ pc' = "done"

\* the random source is fair: generate() keeps producing every sample of the
\* schema, so while some sample would be returned, one eventually is
FairGen == WF_pc(ReturningTurn)

FairSpecGen == SpecGen /\ FairGen

---------------------------------------------------------------------------
(* The operations of LotoResult *)

\* ra == rb
Equals ==
    /\ pc = "operands"
    /\ eqAB' = [set |-> TRUE, val |-> LotoResult_eq(ra, rb)]
    /\ pc' = "compared"
    /\ UNCHANGED <<ra, rb, text, parsed, args, files, idx, results, loaded, gen, retried, err, out,
                   headerVars>>

InitEq ==
    /\ pc = "operands"
    /\ ra \in EqPool /\ rb \in EqPool
    /\ text = <<>> /\ parsed = NoParse /\ eqAB = NoEq
    /\ MainIdle /\ HeaderIdle

SpecEq == InitEq /\ [][Equals]_vars

\* str(ra)
Render ==
    /\ pc = "operands"
    /\ text' = LotoResult_str(ra)
    /\ pc' = "rendered"
    /\ UNCHANGED <<ra, rb, parsed, eqAB, args, files, idx, results, loaded, gen, retried, err, out,
                   headerVars>>

\* the rendered string without the label "tirage=" it starts with
Unlabelled(s) == SubSeq(s, 3, Len(s))

\* LotoResult.from_string(s), s a string of a user, the rendered string, or
\* the rendered string with its label taken off
Parse(s) ==
    /\ \/ pc = "operands" /\ s \in UserStrings
       \/ pc = "rendered" /\ s \in {text, Unlabelled(text)}
    /\ parsed' = [set |-> TRUE, input |-> s] @@ from_string(s)
    /\ pc' = IF pc = "rendered" THEN "reparsed" ELSE "parsed"
    /\ UNCHANGED <<ra, rb, text, eqAB, args, files, idx, results, loaded, gen, retried, err, out,
                   headerVars>>

ParseAny == \E s \in UserStrings \cup {text, Unlabelled(text)} : Parse(s)

InitStr ==
    /\ pc = "operands"
    /\ ra \in StrPool /\ rb = NoResult
    /\ text = <<>> /\ parsed = NoParse /\ eqAB = NoEq
    /\ MainIdle /\ HeaderIdle

NextStr == Render \/ ParseAny

SpecStr == InitStr /\ [][NextStr]_vars

---------------------------------------------------------------------------
(* Header classification *)

\* read_loto_file, lines 224-229: every schema's is_one on the header, and
\* the schema the loop settles on
ClassifyHeader ==
    /\ pc = "header"
    /\ claimed' = [n \in FormatNames |-> is_one_header(FormatOf(n), header)]
    /\ chosen' = IF Classify(header) = 0 THEN NoValue ELSE LOTO_FORMATS[Classify(header)].name
    /\ pc' = "classified"
    /\ UNCHANGED <<header, args, files, idx, results, loaded, gen, retried, err, out, resultVars>>

InitHeader ==
    /\ pc = "header"
    /\ header \in HeaderPool
    /\ claimed = NoClaims /\ chosen = NoValue
    /\ MainIdle /\ ResultIdle

SpecHeader == InitHeader /\ [][ClassifyHeader]_vars

---------------------------------------------------------------------------
(* Claims about generate_tirage *)

\* C1: whenever generate_tirage returns a result, no entry of the history is
\* equal to it, whatever the history and the schema
C1_GeneratedIsUnseen ==
    (pc = "done" /\ out.kind = "generated") =>
        /\ out.text = LotoResult_str(gen)
        /\ \A i \in 1..Len(results) : ~ LotoResult_eq(gen, results[i])

\* generate_tirage returned after it had rejected a candidate
C1_Witness == pc = "done" /\ out.kind = "generated" /\ retried /\ Len(results) = MaxHistory

\* some sample of the schema in use equals no entry of the history
FreeCandidate ==
    \E c \in Generated(args.loto_format) :
        \A i \in 1..Len(results) : ~ LotoResult_eq(c, results[i])

\* C10: under a fair random source, generate_tirage returns whenever some
\* sample of the schema equals no entry of the history, and until it returns
\* a turn of its loop changes nothing but the candidate
C10_GenerateTirageReturns ==
    /\ (pc = "generate" /\ FreeCandidate) ~> (pc = "done")
    /\ [][pc = "generate" =>
            /\ pc' \in {"generate", "done"}
            /\ UNCHANGED <<args, files, idx, results, loaded, err>>
            /\ pc' = "generate" => UNCHANGED <<gen, out>>]_vars

\* the loop went round at least once on a rejected candidate, and returned
C10_Witness ==
    /\ pc = "done" /\ out.kind = "generated" /\ retried


---------------------------------------------------------------------------
(* Claims about LotoResult *)

Count(s, v) == Cardinality({i \in 1..Len(s) : s[i] = v})

SameBag(s, t) == \A v \in Range(s) \cup Range(t) : Count(s, v) = Count(t, v)

NoRepeat(s) == Cardinality(Range(s)) = Len(s)

\* C2 as stated: results with main-number sequences of one length are equal
\* if and only if the sets of their main numbers are equal
C2_EqualIffSameSet ==
    (eqAB.set /\ Len(ra.grid) = Len(rb.grid)) =>
        (eqAB.val <=> Range(ra.grid) = Range(rb.grid))

\* C2 amended: results with main-number sequences of one length are equal
\* if and only if the sequences hold the same numbers the same number of
\* times; where no number is repeated, that is equality of the sets
C2_EqualIffSameBag ==
    (eqAB.set /\ Len(ra.grid) = Len(rb.grid)) =>
        /\ eqAB.val <=> SameBag(ra.grid, rb.grid)
        /\ (NoRepeat(ra.grid) /\ NoRepeat(rb.grid)) =>
               (eqAB.val <=> Range(ra.grid) = Range(rb.grid))

\* two sequences of three numbers in different orders compared equal
C2_Witness ==
    /\ eqAB.set /\ eqAB.val
    /\ Len(ra.grid) = 3 /\ Len(rb.grid) = 3 /\ ra.grid # rb.grid

NonNegative(s) == \A i \in 1..Len(s) : s[i] >= 0

---------------------------------------------------------------------------
(* Claims about extraction and loading *)

InRange(s, top) == \A i \in 1..Len(s) : 1 <= s[i] /\ s[i] <= top

\* C4: every result extracted from a row has the schema's number of main
\* and of bonus numbers, each within the schema's range, whatever the row holds
C4_ExtractedFitsSchema ==
    \A k \in 1..Len(loaded) : \A i \in 1..Len(loaded[k].res) :
        LET cls == LOTO_FORMATS[loaded[k].fmt]
            r == loaded[k].res[i]
        IN  /\ Len(r.grid) = cls.BOULES_NB /\ Len(r.chance) = cls.CHANCE_NB
            /\ InRange(r.grid, cls.MAX) /\ InRange(r.chance, cls.MAX_CHANCE)

DatePatterns == {"dmY", "dmy", "Ymd"}

\* the row-level errors: a date that matches no pattern, a field of a
\* required main or bonus key that is no number
RowLevelError(cls, line) ==
    \/ \A f \in DatePatterns : ~ strptime(line[DATE_KEY], f).ok
    \/ \E key \in Range(boule_keys(cls)) \cup Range(chance_keys(cls)) : ~ ParseInt(line[key]).ok

\* what the rows of a file contribute when a row with a row-level error
\* contributes nothing and every other row its results
RowWise(cls, rows) ==
    Flatten([i \in 1..Len(rows) |->
                IF RowLevelError(cls, rows[i]) THEN <<>> ELSE extract_line(cls, rows[i]).res])

\* C5: loading a claimed file does not raise; a row with a row-level error
\* contributes no result and every other row of the file contributes its own
C5_RowErrorDropsTheRowOnly ==
    /\ pc # "crashed"
    /\ \A k \in 1..Len(loaded) :
          (loaded[k].fmt # 0 /\ Member(loaded[k].file.header, DATE_KEY)) =>
              loaded[k].res = RowWise(LOTO_FORMATS[loaded[k].fmt], loaded[k].file.rows)

FileLevelError(f) == ~ f.openable \/ ~ f.decodable \/ Classify(f.header) = 0

\* C6: a file-level error never leaves read_loto_file: the file contributes
\* nothing, and the history holds the results of every other file
C6_FileErrorIsContained ==
    /\ pc # "crashed"
    /\ Len(loaded) = idx
    /\ \A k \in 1..Len(loaded) : FileLevelError(loaded[k].file) => loaded[k].res = <<>>
    /\ results = Flatten([k \in 1..Len(loaded) |-> loaded[k].res])

---------------------------------------------------------------------------
(* Claims about main *)

\* C7 as stated: no file has been passed to read_loto_file when a run ends
\* in a usage error
C7_UsageErrorBeforeAnyLoad == pc = "usage_error" => idx = 0

\* C7 amended: a usage error about the directory and file arguments or about
\* a file's suffix ends the run before any file is read; a lookup string of
\* invalid syntax is refused only once every file has been read
C7_UsageErrorOrder ==
    pc = "usage_error" =>
        IF err = "BadArgumentUsage: exist"
        THEN idx = Len(files)
        ELSE idx = 0 /\ files = <<>> /\ loaded = <<>>

\* a malformed lookup string was refused after the files were read
C7_Witness ==
    pc = "usage_error" /\ err = "BadArgumentUsage: exist" /\ idx = MaxFiles /\ results # <<>>

---------------------------------------------------------------------------
(* Claims about the classification of headers *)

Claimers == {n \in FormatNames : claimed[n]}

\* C8: on the header made of exactly boule_1..boule_5, numero_chance and
\* date_de_tirage the 5-ball schema is chosen, and neither the 6-ball nor the
\* EuroMillion schema claims it
C8_Header5IsLoto5Only ==
    (pc = "classified" /\ Range(header) = Range(Header5)) =>
        (chosen = "5_boules" /\ Claimers = {"5_boules"})

C8_Witness == pc = "classified" /\ header = Header5 /\ claimed["5_boules"]

\* C9 as stated: no header is claimed by more than one schema
C9_AtMostOneClaims == pc = "classified" => Cardinality(Claimers) <= 1

\* C9 amended: the 6-ball schema shares no header with another schema; the
\* 5-ball and the EuroMillion schema both claim a header only if it holds
\* numero_chance, etoile_1 and etoile_2 beside boule_1..boule_5, and the
\* 5-ball schema, first in the registry, is then the one chosen; a header
\* with one claimer gets it, a header with none gets no schema
C9_OverlapIsLoto5WithEuro ==
    pc = "classified" =>
        /\ claimed["6_boules"] => Claimers = {"6_boules"}
        /\ (claimed["5_boules"] /\ claimed["euromillion"]) =>
               /\ {NumeroChance, Etoile(1), Etoile(2)} \subseteq Range(header)
               /\ chosen = "5_boules"
        /\ Cardinality(Claimers) = 1 => chosen \in Claimers
        /\ Claimers = {} => chosen = NoValue

\* a header claimed by the 5-ball and by the EuroMillion schema
C9_Witness == pc = "classified" /\ claimed["5_boules"] /\ claimed["euromillion"]

=============================================================================
